---- MODULE Spec2Model ----
(***************************************************************************)
(* Price-drop sweep of the flight tracker backend: priceCheckService       *)
(* (checkFlightPrice, triggerPriceDropAlert, processAllDueFlights), the    *)
(* cron runner (runJob) and the notification sender (sendPriceDropEmail).  *)
(* The fare lookup (amadeusService.getFlightPrice) is a function of the    *)
(* call and of the provider's answer; SpecLookup applies it to every call  *)
(* and answer, while the sweep draws its result from null and Prices.      *)
(*                                                                         *)
(* Prices are whole currency units. For whole units the IEEE-754 double    *)
(* product x * 0.90 compares with a whole price exactly as 9x compares     *)
(* with 10 times that price, so the comparison is modelled on integers.    *)
(* Time is counted in hours.                                               *)
(*                                                                         *)
(* The API process is modelled by three further specifications: SpecToken  *)
(* (getAccessToken calls sharing the token cache), SpecRate (the rate      *)
(* limiting middleware) and SpecTrips (createTripInDatabase calls sharing  *)
(* the tables); SpecOverlap lets two runs of the sweep overlap.            *)
(***************************************************************************)
EXTENDS Integers, Sequences, FiniteSets, TLC

\* ------------------------------------------------------------------ bounds
MaxTime == 1
MaxLookups == 2
MaxOffers == 3
MaxClock == 4
MaxTokens == 3
MaxBurst == 2

\* ------------------------------------------------------------ JS values
\* a nullable numeric column as the row object carries it
NULL == [null |-> TRUE]
NAN == [nan |-> TRUE]
Num(n) == [num |-> n]
IsNum(v) == v \notin {NULL, NAN}

Flights == {1, 2}
Users == {"u1", "u2"}
Sweeps == {1, 2}

\* prices the fare lookup may report (parseFloat of the offer's total)
Prices == {-11, -10, 0, 400, 449, 450}

DefaultCheckFrequencyHours == 24
\* a departure date no run of the model reaches
FarFuture == MaxTime + 100

\* JS truthiness of a price value, as used by the || operator
Falsy(v) == v \in {NULL, NAN, Num(0)}

\* a || b
OrElse(a, b) == IF Falsy(a) THEN b ELSE a

\* original_price === null || isNaN(original_price)
InvalidOriginal(original_price) == original_price = NULL \/ original_price = NAN

\* currentPrice < base * 0.90 ; a NaN threshold compares false
BelowThresholdTwenty(currentPrice, base) ==
  /\ IsNum(base)
  /\ 10 * currentPrice < 8 * base.num

BelowThresholdLE(currentPrice, base) ==
  /\ IsNum(base)
  /\ 10 * currentPrice <= 9 * base.num

BelowThreshold(currentPrice, base) ==
  /\ IsNum(base)
  /\ 10 * currentPrice < 9 * base.num

\* the shouldAlert flag computed by checkFlightPrice for a valid original
shouldAlertAgainstOriginal(original_price, last_alerted_price, currentPrice) ==
  BelowThreshold(currentPrice, original_price)

shouldAlert(original_price, last_alerted_price, currentPrice) ==
  IF last_alerted_price = NULL
    THEN BelowThreshold(currentPrice, original_price)
    ELSE BelowThreshold(currentPrice, last_alerted_price)

\* previousPrice = last_alerted_price || original_price
previousPrice(original_price, last_alerted_price) ==
  OrElse(last_alerted_price, original_price)

\* savingsThisDrop = previousPrice - currentPrice (only computed when
\* shouldAlert, so previousPrice is a number)
savingsThisDrop(original_price, last_alerted_price, currentPrice) ==
  previousPrice(original_price, last_alerted_price).num - currentPrice

\* flight.check_frequency_hours || 24
checkFrequency(flight) ==
  IF flight.check_frequency_hours = 0
    THEN DefaultCheckFrequencyHours
    ELSE flight.check_frequency_hours

\* ------------------------------------------------------------------ state
VARIABLES
  now,          \* NOW() / Date.now(), in hours
  flights,      \* committed rows of table flights
  users,        \* committed rows of table users
  lookups,      \* number of fare lookups issued so far
  pc,           \* position of each runJob invocation
  dueFlights,   \* rows returned by the due-flights query
  idx,          \* position of the for..of loop in dueFlights
  alertData,    \* argument of triggerPriceDropAlert
  tx,           \* the open alert transaction: its uncommitted writes
  outcome,      \* what happened to the flight the loop handled last
  sweepError,   \* fatal error raised inside processAllDueFlights
  jobFailed,    \* runJob's catch block ran
  alerts,       \* committed alert transactions per flight
  emails,       \* sendPriceDropEmail invocations per flight
  price_history,   \* rows of table price_history, per flight
  flightDetails,   \* argument of a getFlightPrice call
  amadeusResponse, \* what the token and flight-offers endpoints answer
  priceData,       \* what that getFlightPrice call returned
  dateNow,            \* Date.now() of the API process, in milliseconds
  amadeusAccessToken, \* the process-wide token cache
  issued,             \* provider side: expiry time of each token it issued
  call,               \* the getAccessToken calls in progress
  rateLimitMap,       \* the rate limiter's Map: client IP -> {count, resetTime}
  passed,             \* requests handed to next() in each IP's current window
  rateResponse,       \* what the rate limiter did with the latest request
  flightRows,         \* committed rows of table flights, as trip creation sees them
  userRows,           \* committed rows of table users, as trip creation sees them
  tripHistory,        \* committed price_history rows written by trip creation
  trip                \* the createTripInDatabase calls in progress

sweepVars == <<now, flights, users, lookups, pc, dueFlights, idx, alertData, tx,
               outcome, sweepError, jobFailed, alerts, emails>>
lookupVars == <<flightDetails, amadeusResponse, priceData>>
\* the state of the services the sweep does not write
tokenVars == <<dateNow, amadeusAccessToken, issued, call>>
rateVars == <<rateLimitMap, passed, rateResponse>>
tripVars == <<flightRows, userRows, tripHistory, trip>>
serviceVars == <<lookupVars, tokenVars, rateVars, tripVars>>
vars == <<sweepVars, price_history, serviceVars>>

NoAlert == [flight_id |-> 0, user_id |-> "none", currentPrice |-> 0, savingsThisDrop |-> 0]
NoTx == [open |-> FALSE, committed |-> FALSE, startedAt |-> 0,
         flight |-> FALSE, user |-> FALSE]

\* a flight as created by the trip endpoints an hour ago: never alerted,
\* never checked
NewFlight(id, user, original, active, departure, nextCheck, freq) ==
  [flight_id |-> id, user_id |-> user, original_price |-> original, last_alerted_price |-> NULL,
   last_checked_price |-> NULL, last_checked_at |-> -1,
   next_check_at |-> nextCheck, check_frequency_hours |-> freq,
   is_active |-> active, departure_date |-> departure]

\* the second flight varies: owner, invalid original price, inactive,
\* departed, not yet due with the default frequency
SecondFlights ==
  { NewFlight(2, "u2", Num(500), TRUE, FarFuture, 0, 1),
    NewFlight(2, "u1", Num(500), TRUE, FarFuture, 0, 1),
    NewFlight(2, "u2", NULL, TRUE, FarFuture, 0, 1),
    NewFlight(2, "u2", NAN, TRUE, FarFuture, 0, 1),
    NewFlight(2, "u2", Num(500), FALSE, FarFuture, 0, 1),
    NewFlight(2, "u2", Num(500), TRUE, 0, 0, 1),
    NewFlight(2, "u2", Num(500), TRUE, FarFuture, 1, 0) }

\* the sweep's part of the state when the process starts
InitSweep ==
  /\ now = 0
  /\ \E f2 \in SecondFlights :
       flights = [f \in Flights |->
                    IF f = 1 THEN NewFlight(1, "u1", Num(500), TRUE, FarFuture, 0, 1) ELSE f2]
  /\ users = [u \in Users |-> [lifetime_savings |-> 0]]
  /\ lookups = 0
  /\ pc = [s \in Sweeps |-> "idle"]
  /\ dueFlights = [s \in Sweeps |-> <<>>]
  /\ idx = [s \in Sweeps |-> 0]
  /\ alertData = [s \in Sweeps |-> NoAlert]
  /\ tx = [s \in Sweeps |-> NoTx]
  /\ outcome = [s \in Sweeps |-> "none"]
  /\ sweepError = [s \in Sweeps |-> "none"]
  /\ jobFailed = [s \in Sweeps |-> FALSE]
  /\ alerts = [f \in Flights |-> 0]
  /\ emails = [f \in Flights |-> 0]

\* createTripInDatabase wrote one price_history row when the scraped total
\* price was truthy
InitialHistory(original_price) ==
  IF Falsy(original_price) THEN <<>> ELSE <<[price |-> original_price.num]>>

\* ------------------------------------------------------------ fare lookup
\* a string of decimal digits is the sequence of its digits
RECURSIVE parseInt(_)
\* parseInt / parseFloat of a non-empty string of digits
parseInt(digits) ==
  IF Len(digits) = 1 THEN digits[1]
  ELSE 10 * parseInt(SubSeq(digits, 1, Len(digits) - 1)) + digits[Len(digits)]

parseFloat(digits) == parseInt(digits)

Abs(x) == IF x < 0 THEN -x ELSE x

\* an airline code, as flightDetails carries it when it is set
Code(c) == [code |-> c]

\* "HH:MM", split at the colon
Time(hh, mm) == [hh |-> hh, mm |-> mm]

\* parseInt(t.split(':')[0]) * 60 + parseInt(t.split(':')[1])
TimeInMinutes(t) == parseInt(t.hh) * 60 + parseInt(t.mm)

\* a flight offer: the carrier of each segment of its first itinerary, the
\* time of day in segments[0].departure.at, and price.total
Offer(carrierCodes, at, total) ==
  [carrierCodes |-> carrierCodes, at |-> at, total |-> total]

FlightOffers ==
  { Offer(<<"AA">>, Time(<<0, 8>>, <<0, 0>>), <<3, 0, 0>>),
    Offer(<<"UA">>, Time(<<1, 3>>, <<0, 0>>), <<3, 2, 0>>),
    Offer(<<"DL">>, Time(<<1, 9>>, <<0, 0>>), <<3, 1, 0>>),
    Offer(<<"DL", "AA">>, Time(<<1, 2>>, <<0, 0>>), <<3, 3, 0>>) }

\* &max=10 with a preferred departure time, &max=1 without
maxResults(departureTime) == IF departureTime # NULL THEN 10 ELSE 1

\* the offer lists the search may answer with
OfferLists(departureTime) ==
  UNION {[1..n -> FlightOffers] :
           n \in 0..(IF maxResults(departureTime) < MaxOffers
                       THEN maxResults(departureTime) ELSE MaxOffers)}

\* the calls getFlightPrice may be made with
FlightDetails ==
  [airline : {NULL, Code("DL")},
   departureTime : {NULL, Time(<<1, 2>>, <<3, 0>>)}]

\* what the outside world answers: getAccessToken throws, fetch rejects, or
\* the flight-offers endpoint answers with a status and a JSON body
Responses(departureTime) ==
  {[kind |-> k, status |-> 0, body |-> [errors |-> TRUE]] :
     k \in {"tokenError", "networkError"}}
  \cup {[kind |-> "http", status |-> st, body |-> [errors |-> TRUE]] :
          st \in {200, 400, 401, 500}}
  \cup {[kind |-> "http", status |-> 200, body |-> [data |-> d]] :
          d \in OfferLists(departureTime)}

\* response.ok
ResponseOk(status) == status \in 200..299

Thrown(e) == [throw |-> e]
IsThrown(v) == "throw" \in DOMAIN v
Pending == [pending |-> TRUE]

\* let closestTimeDiff = Infinity: above every difference of two times of day
Infinity == 24 * 60

\* if (timeDiff < closestTimeDiff)
isCloserOrEqual(timeDiff, closestTimeDiff) == timeDiff <= closestTimeDiff

isCloser(timeDiff, closestTimeDiff) == timeDiff < closestTimeDiff

RECURSIVE closestOffer(_, _, _, _, _)
\* the for..of loop over data.data from position i on; best is the index of
\* bestFlightOffer (0 while it is undefined)
closestOffer(data, targetTimeInMinutes, i, closestTimeDiff, best) ==
  IF i > Len(data) THEN best
  ELSE LET timeDiff == Abs(targetTimeInMinutes - TimeInMinutes(data[i].at))
       IN IF isCloser(timeDiff, closestTimeDiff)
            THEN closestOffer(data, targetTimeInMinutes, i + 1, timeDiff, i)
            ELSE closestOffer(data, targetTimeInMinutes, i + 1, closestTimeDiff, best)

\* the index in data.data of bestFlightOffer; the airline is not looked at
bestFlightOffer(details, data) ==
  IF details.departureTime # NULL
    THEN closestOffer(data, TimeInMinutes(details.departureTime), 1, Infinity, 0)
    ELSE 1

\* the body of getFlightPrice's try block: a returned value or a thrown error
TryBlock(details, r) ==
  IF r.kind = "tokenError" THEN Thrown("getAccessToken")
  ELSE IF r.kind = "networkError" THEN Thrown("fetch")
  ELSE IF ~ResponseOk(r.status)
    THEN IF r.status = 400 THEN NULL ELSE Thrown("Amadeus flight search failed")
  ELSE IF "data" \notin DOMAIN r.body \/ Len(r.body.data) = 0 THEN NULL
  ELSE LET best == bestFlightOffer(details, r.body.data)
       IN IF best = 0 THEN NULL
          ELSE [currentPrice |-> parseFloat(r.body.data[best].total)]

\* getFlightPrice: its catch block logs whatever the try block threw and
\* returns null
getFlightPrice(details, r) ==
  LET v == TryBlock(details, r)
  IN IF IsThrown(v) THEN NULL ELSE v

\* ----------------------------------------------------------- token cache
Callers == {1, 2}

\* the clock of the API process advances in steps of ten seconds
TickMillis == 10 * 1000

\* expires_in of a token answer, in seconds
ExpiresIn == {20, 40}

\* data.access_token of the n-th token the provider issued
Tok(n) == [id |-> n]

NoCall == [pc |-> "idle", now |-> 0, token |-> NULL]

\* let amadeusAccessToken = { token: null, expiresAt: 0 }
InitToken ==
  /\ dateNow = 0
  /\ amadeusAccessToken = [token |-> NULL, expiresAt |-> 0]
  /\ issued = <<>>
  /\ call = [c \in Callers |-> NoCall]

\* expiresAt: now + (data.expires_in * 1000) - 10000
tokenExpiresAtNoMargin(now0, expires_in) == now0 + (expires_in * 1000)

tokenExpiresAt(now0, expires_in) == now0 + (expires_in * 1000) - 10000

\* amadeusAccessToken.token && now < amadeusAccessToken.expiresAt
cacheValid(now0) ==
  /\ amadeusAccessToken.token # NULL
  /\ now0 < amadeusAccessToken.expiresAt

\* ------------------------------------------------------- rate limiter
ClientIps == {"ip1", "ip2"}
RATE_LIMIT_WINDOW == 60000
RATE_LIMIT_MAX_REQUESTS == 100
RateTickMillis == 30 * 1000

\* what the middleware did with a request: called next() or answered 429
NoResponse == [clientIp |-> "none", status |-> "none"]
Passed(ip) == [clientIp |-> ip, status |-> "next"]
Limited(ip) == [clientIp |-> ip, status |-> "429"]

\* new Map(): no client has an entry
InitRate ==
  /\ rateLimitMap = [ip \in ClientIps |-> NULL]
  /\ passed = [ip \in ClientIps |-> 0]
  /\ rateResponse = NoResponse

\* -------------------------------------------------------- trip creation
Requests == {1, 2}

\* strings that can be missing: a booking reference or hash, an airport
\* code spelled character by character
Ref(s) == [ref |-> s]
Airport(chars) == [code |-> chars]
NotFoundRef == Ref("Not Found")
TripUsers == {Ref("u1"), Ref("u2")}
NotFoundAirport == Airport(<<"N", "o", "t", " ", "F", "o", "u", "n", "d">>)
UpperCase == {"A", "B", "C", "D", "E", "F", "G", "H", "I", "J", "K", "L", "M",
              "N", "O", "P", "Q", "R", "S", "T", "U", "V", "W", "X", "Y", "Z"}

\* /^[A-Z]{3}$/.test(airport)
airportCodeRegex(airport) ==
  /\ airport # NULL
  /\ Len(airport.code) = 3
  /\ \A i \in 1..3 : airport.code[i] \in UpperCase

JFK == Airport(<<"J", "F", "K">>)
LAX == Airport(<<"L", "A", "X">>)

FlightData(userId, bookingReference, bookingHash, departureAirport, arrivalAirport, departureDate, totalPrice) ==
  [userId |-> userId, bookingReference |-> bookingReference,
   bookingHash |-> bookingHash, departureAirport |-> departureAirport,
   arrivalAirport |-> arrivalAirport, departureDate |-> departureDate,
   totalPrice |-> totalPrice]

\* the request bodies: a booking with and without hash, a second booking,
\* the first booking's hash sent by a user not yet known, and bodies that
\* fail validation
TripData ==
  { FlightData(Ref("u1"), Ref("ABC123"), Ref("h1"), JFK, LAX, Ref("2026-12-24"), Num(500)),
    FlightData(Ref("u1"), Ref("ABC123"), NULL, JFK, LAX, Ref("2026-12-24"), NULL),
    FlightData(Ref("u1"), Ref("XYZ789"), Ref("h2"), LAX, JFK, Ref("2026-12-31"), Num(500)),
    FlightData(Ref("u2"), Ref("ABC123"), Ref("h1"), JFK, LAX, Ref("2026-12-24"), Num(500)),
    FlightData(Ref("u1"), NotFoundRef, NULL, JFK, LAX, Ref("2026-12-24"), Num(500)),
    FlightData(Ref("u1"), Ref("ABC123"), NULL, Airport(<<"j", "f", "k">>), LAX, NULL, Num(500)),
    FlightData(NULL, Ref("ABC123"), NULL, JFK, LAX, NULL, Num(500)) }

\* error messages, word by word
NoError == <<>>
UserIdRequired == <<"User", "ID", "is", "required">>
ReferenceRequired == <<"Valid", "booking", "reference", "is", "required">>
AirportsRequired == <<"Valid", "departure", "and", "arrival", "airports", "are", "required">>
InvalidAirportCode == <<"Invalid", "airport", "code", "format">>
LimitReached == <<"You", "have", "reached", "your", "limit", "of", "active", "flights",
                  "Please", "upgrade", "or", "delete", "an", "existing", "trip">>
HashMatch == <<"Booking", "already", "exists", "hash", "match">>
DetailsMatch == <<"Booking", "already", "exists", "details", "match">>
UniqueViolation == <<"duplicate", "key", "value", "violates", "unique", "constraint">>
QueryFailed == <<"Connection", "terminated", "unexpectedly">>

\* the validation block: the message of the error it throws, if any
validationError(flightData) ==
  IF Falsy(flightData.userId) THEN UserIdRequired
  ELSE IF Falsy(flightData.bookingReference) \/ flightData.bookingReference = NotFoundRef
    THEN ReferenceRequired
  ELSE IF \/ Falsy(flightData.departureAirport) \/ Falsy(flightData.arrivalAirport)
          \/ flightData.departureAirport = NotFoundAirport
          \/ flightData.arrivalAirport = NotFoundAirport
    THEN AirportsRequired
  ELSE IF \/ ~airportCodeRegex(flightData.departureAirport)
          \/ ~airportCodeRegex(flightData.arrivalAirport)
    THEN InvalidAirportCode
  ELSE NoError

\* message.includes(word)
includes(message, word) == \E i \in 1..Len(message) : message[i] = word

\* the status the endpoint's catch block answers with
statusCode(message) ==
  IF includes(message, "required") \/ includes(message, "Invalid") THEN 400
  ELSE IF includes(message, "exists") THEN 409
  ELSE IF includes(message, "limit") THEN 403
  ELSE 500

planDetails(subscription_plan) ==
  CASE subscription_plan = "free" -> [limit |-> 2, frequencyHours |-> 1]
    [] subscription_plan = "pro" -> [limit |-> 4, frequencyHours |-> 72]
    [] subscription_plan = "max" -> [limit |-> 8, frequencyHours |-> 72]
    [] OTHER -> NULL

\* planDetails[user.subscription_plan] || planDetails.free
planOf(subscription_plan) == OrElse(planDetails(subscription_plan), planDetails("free"))

\* a row of table flights
FlightRow(flightData, active) ==
  [user_id |-> flightData.userId, booking_reference |-> flightData.bookingReference,
   booking_hash |-> flightData.bookingHash,
   departure_airport |-> flightData.departureAirport,
   arrival_airport |-> flightData.arrivalAirport,
   departure_date |-> flightData.departureDate,
   total_price |-> flightData.totalPrice, is_active |-> active]

\* bookings stored before the requests of the model arrive
EarlierReferences == <<"OLD001", "OLD002", "OLD003", "OLD004", "OLD005", "OLD006",
                       "OLD007", "OLD008">>
Earlier(userId, k, active) ==
  FlightRow(FlightData(userId, Ref(EarlierReferences[k]), NULL, LAX, JFK,
                       Ref("2026-11-30"), NULL), active)

\* (SELECT COUNT(*) FROM flights WHERE user_id = .. AND is_active = TRUE)
active_flights(userId) ==
  Cardinality({i \in 1..Len(flightRows) :
                 /\ flightRows[i].user_id = userId
                 /\ flightRows[i].is_active})

\* SQL equality: never true when either side is NULL
SqlEq(a, b) == a # NULL /\ b # NULL /\ a = b

\* SELECT flight_id FROM flights WHERE booking_hash = $1 AND user_id = $2
hashCheck(flightData) ==
  IF Falsy(flightData.bookingHash) THEN {}
  ELSE {i \in 1..Len(flightRows) :
          /\ SqlEq(flightRows[i].booking_hash, flightData.bookingHash)
          /\ SqlEq(flightRows[i].user_id, flightData.userId)}

\* SELECT flight_id FROM flights WHERE user_id = $1 AND booking_reference = $2
\* AND departure_airport = $3 AND arrival_airport = $4 AND departure_date = $5
detailsCheck(flightData) ==
  {i \in 1..Len(flightRows) :
     /\ SqlEq(flightRows[i].user_id, flightData.userId)
     /\ SqlEq(flightRows[i].booking_reference, flightData.bookingReference)
     /\ SqlEq(flightRows[i].departure_airport, flightData.departureAirport)
     /\ SqlEq(flightRows[i].arrival_airport, flightData.arrivalAirport)
     /\ SqlEq(flightRows[i].departure_date, flightData.departureDate)}

NoTrip == [pc |-> "idle", flightData |-> NULL, plan |-> NULL, newUser |-> FALSE,
           userLock |-> FALSE, flight |-> NULL, history |-> NULL, total |-> 0,
           error |-> NoError, status |-> 0]

\* empty tables and no request
InitTrips ==
  /\ flightRows = <<>>
  /\ userRows = [u \in TripUsers |-> NULL]
  /\ tripHistory = <<>>
  /\ trip = [r \in Requests |-> NoTrip]

\* no fare lookup is modelled call by call while the sweep runs: the sweep
\* draws what getFlightPrice returned from null and Prices
Init ==
  /\ InitSweep
  /\ price_history = [f \in Flights |-> InitialHistory(flights[f].original_price)]
  /\ flightDetails = NULL
  /\ amadeusResponse = NULL
  /\ priceData = Pending
  /\ InitToken
  /\ InitRate
  /\ InitTrips

\* one getFlightPrice call, for every call and every answer
LookupInit ==
  /\ InitSweep
  /\ price_history = [f \in Flights |-> InitialHistory(flights[f].original_price)]
  /\ flightDetails \in FlightDetails
  /\ amadeusResponse \in Responses(flightDetails.departureTime)
  /\ priceData = Pending
  /\ InitToken
  /\ InitRate
  /\ InitTrips

\* ------------------------------------------------------------- helpers
RECURSIVE Orders(_)
\* the orders in which a query without ORDER BY may return a set of rows
Orders(S) ==
  IF S = {} THEN {<<>>}
  ELSE UNION {{<<f>> \o rest : rest \in Orders(S \ {f})} : f \in S}

\* WHERE f.is_active = TRUE AND f.departure_date::date > NOW()
\*   AND f.next_check_at <= NOW()
IsDueIgnoringActive(flight) ==
  /\ flight.departure_date > now
  /\ flight.next_check_at <= now

IsDue(flight) ==
  /\ flight.is_active
  /\ flight.departure_date > now
  /\ flight.next_check_at <= now

\* the flight the for..of loop is at
Current(s) == dueFlights[s][idx[s]]

\* the loop moves to the next row; after the last row processAllDueFlights
\* returns through its finally block and runJob ends
Advance(s, result) ==
  IF idx[s] + 1 > Len(dueFlights[s])
    THEN /\ pc' = [pc EXCEPT ![s] = "exited"]
         /\ idx' = [idx EXCEPT ![s] = 0]
         /\ dueFlights' = [dueFlights EXCEPT ![s] = <<>>]
         /\ outcome' = [outcome EXCEPT ![s] = result]
    ELSE /\ pc' = [pc EXCEPT ![s] = "loop"]
         /\ idx' = [idx EXCEPT ![s] = @ + 1]
         /\ outcome' = [outcome EXCEPT ![s] = result]
         /\ UNCHANGED dueFlights

CatchFlightErrorAbort(s) ==
  /\ pc' = [pc EXCEPT ![s] = "exited"]
  /\ idx' = [idx EXCEPT ![s] = 0]
  /\ dueFlights' = [dueFlights EXCEPT ![s] = <<>>]
  /\ outcome' = [outcome EXCEPT ![s] = "exception"]

\* catch (error) of the loop body: log, continue with the next flight
CatchFlightError(s) == Advance(s, "exception")

\* checkFlightPrice returned: go on to the next_check_at update
Returned(s, result) ==
  /\ pc' = [pc EXCEPT ![s] = "reschedule"]
  /\ outcome' = [outcome EXCEPT ![s] = result]
  /\ UNCHANGED <<idx, dueFlights>>

\* ------------------------------------------------------------- actions
\* the clock advances between job runs
Tick ==
  /\ UNCHANGED <<price_history, serviceVars>>
  /\ now < MaxTime
  /\ \A s \in Sweeps : pc[s] \in {"idle", "exited"}
  /\ now' = now + 1
  /\ UNCHANGED <<flights, users, lookups, pc, dueFlights, idx, alertData, tx,
                 outcome, sweepError, jobFailed, alerts, emails>>

\* runJob starts processAllDueFlights, which takes a pooled client
RunJob(s) ==
  /\ UNCHANGED <<price_history, serviceVars>>
  /\ pc[s] \in {"idle", "exited"}
  /\ dueFlights' = [dueFlights EXCEPT ![s] = <<>>]
  /\ idx' = [idx EXCEPT ![s] = 0]
  /\ alertData' = [alertData EXCEPT ![s] = NoAlert]
  /\ tx' = [tx EXCEPT ![s] = NoTx]
  /\ outcome' = [outcome EXCEPT ![s] = "none"]
  /\ \E ok \in BOOLEAN :
       IF ok
         THEN /\ pc' = [pc EXCEPT ![s] = "connected"]
              /\ sweepError' = [sweepError EXCEPT ![s] = "none"]
              /\ jobFailed' = [jobFailed EXCEPT ![s] = FALSE]
         ELSE \* pool.connect() rejects outside the try: runJob's catch logs it
              /\ pc' = [pc EXCEPT ![s] = "exited"]
              /\ sweepError' = [sweepError EXCEPT ![s] = "connect"]
              /\ jobFailed' = [jobFailed EXCEPT ![s] = TRUE]
  /\ UNCHANGED <<now, flights, users, lookups, alerts, emails>>

\* the due-flights query, and the early return on an empty result
FetchDueFlights(s) ==
  /\ UNCHANGED <<price_history, serviceVars>>
  /\ pc[s] = "connected"
  /\ \E ok \in BOOLEAN :
       IF ok
         THEN \E rows \in Orders({f \in Flights : IsDue(flights[f])}) :
                /\ dueFlights' = [dueFlights EXCEPT ![s] =
                                    [i \in 1..Len(rows) |-> flights[rows[i]]]]
                /\ idx' = [idx EXCEPT ![s] = 1]
                /\ pc' = [pc EXCEPT ![s] = IF rows = <<>> THEN "exited" ELSE "loop"]
                /\ UNCHANGED sweepError
         ELSE \* caught by the outer catch: logged as CRITICAL ERROR
              /\ sweepError' = [sweepError EXCEPT ![s] = "dueQuery"]
              /\ pc' = [pc EXCEPT ![s] = "exited"]
              /\ UNCHANGED <<dueFlights, idx>>
  /\ UNCHANGED <<now, flights, users, lookups, alertData, tx, outcome,
                 jobFailed, alerts, emails>>

\* UPDATE flights SET last_checked_at = NOW() WHERE flight_id = $1
TouchCheckedClearPrice(row) ==
  [row EXCEPT !.last_checked_price = NULL, !.last_checked_at = now]

TouchChecked(row) == [row EXCEPT !.last_checked_at = now]

\* UPDATE flights SET last_checked_price = $1, last_checked_at = NOW()
RefreshPriceAlerted(row, currentPrice) ==
  [row EXCEPT !.last_checked_price = Num(currentPrice),
              !.last_alerted_price = Num(currentPrice),
              !.last_checked_at = now]

RefreshPrice(row, currentPrice) ==
  [row EXCEPT !.last_checked_price = Num(currentPrice), !.last_checked_at = now]

\* UPDATE flights SET last_checked_price = $1, last_alerted_price = $1,
\*   last_checked_at = NOW(); NOW() is the transaction's start time
AlertFlightUpdate(row, currentPrice, startedAt) ==
  [row EXCEPT !.last_checked_price = Num(currentPrice),
              !.last_alerted_price = Num(currentPrice),
              !.last_checked_at = startedAt]

\* UPDATE users SET lifetime_savings = lifetime_savings + $1
UserUpdateTwice(row, savings) ==
  [row EXCEPT !.lifetime_savings = @ + savings + savings]

UserUpdate(row, savings) == [row EXCEPT !.lifetime_savings = @ + savings]

\* checkFlightPrice, fare lookup reports nothing (no offers, or an error that
\* getFlightPrice swallowed): only last_checked_at is refreshed
LookupNotFound(s) ==
  /\ UNCHANGED <<price_history, serviceVars>>
  /\ pc[s] = "loop"
  /\ lookups < MaxLookups
  /\ lookups' = lookups + 1
  /\ \E ok \in BOOLEAN :
       IF ok
         THEN /\ flights' = [flights EXCEPT ![Current(s).flight_id] = TouchChecked(@)]
              /\ Returned(s, "notFound")
         ELSE /\ CatchFlightError(s)
              /\ UNCHANGED flights
  /\ UNCHANGED <<now, users, alertData, tx, sweepError,
                 jobFailed, alerts, emails>>

\* checkFlightPrice, a price was found but original_price is null or NaN
CheckInvalidOriginalReturnsEarly(s) ==
  /\ UNCHANGED <<price_history, serviceVars>>
  /\ pc[s] = "loop"
  /\ lookups < MaxLookups
  /\ lookups' = lookups + 1
  /\ InvalidOriginal(Current(s).original_price)
  /\ \E ok \in BOOLEAN :
       IF ok THEN Returned(s, "invalid") ELSE CatchFlightError(s)
  /\ UNCHANGED <<now, flights, users, alertData, tx, sweepError,
                 jobFailed, alerts, emails>>

CheckInvalidOriginal(s) ==
  /\ UNCHANGED <<price_history, serviceVars>>
  /\ pc[s] = "loop"
  /\ lookups < MaxLookups
  /\ lookups' = lookups + 1
  /\ InvalidOriginal(Current(s).original_price)
  /\ \E currentPrice \in Prices, ok \in BOOLEAN :
       IF ok
         THEN /\ flights' = [flights EXCEPT ![Current(s).flight_id] =
                               RefreshPrice(@, currentPrice)]
              /\ Returned(s, "invalid")
         ELSE /\ CatchFlightError(s)
              /\ UNCHANGED flights
  /\ UNCHANGED <<now, users, alertData, tx, sweepError,
                 jobFailed, alerts, emails>>

\* checkFlightPrice, a price was found and shouldAlert stays false
CheckNoDrop(s) ==
  /\ UNCHANGED <<price_history, serviceVars>>
  /\ pc[s] = "loop"
  /\ lookups < MaxLookups
  /\ lookups' = lookups + 1
  /\ ~InvalidOriginal(Current(s).original_price)
  /\ \E currentPrice \in Prices, ok \in BOOLEAN :
       /\ ~shouldAlert(Current(s).original_price, Current(s).last_alerted_price,
                       currentPrice)
       /\ IF ok
            THEN /\ flights' = [flights EXCEPT ![Current(s).flight_id] =
                                  RefreshPrice(@, currentPrice)]
                 /\ Returned(s, "stable")
            ELSE /\ CatchFlightError(s)
                 /\ UNCHANGED flights
  /\ UNCHANGED <<now, users, alertData, tx, sweepError,
                 jobFailed, alerts, emails>>

\* checkFlightPrice, shouldAlert is true: triggerPriceDropAlert is called
\* and takes a pooled client
CheckDrop(s) ==
  /\ UNCHANGED <<price_history, serviceVars>>
  /\ pc[s] = "loop"
  /\ lookups < MaxLookups
  /\ lookups' = lookups + 1
  /\ ~InvalidOriginal(Current(s).original_price)
  /\ \E currentPrice \in Prices, ok \in BOOLEAN :
       /\ shouldAlert(Current(s).original_price, Current(s).last_alerted_price,
                      currentPrice)
       /\ IF ok
            THEN /\ alertData' = [alertData EXCEPT ![s] =
                      [flight_id |-> Current(s).flight_id,
                       user_id |-> Current(s).user_id,
                       currentPrice |-> currentPrice,
                       savingsThisDrop |->
                         savingsThisDrop(Current(s).original_price,
                                         Current(s).last_alerted_price,
                                         currentPrice)]]
                 /\ pc' = [pc EXCEPT ![s] = "begin"]
                 /\ outcome' = [outcome EXCEPT ![s] = "dropped"]
                 /\ UNCHANGED <<idx, dueFlights>>
            ELSE /\ CatchFlightError(s)
                 /\ UNCHANGED alertData
  /\ UNCHANGED <<now, flights, users, tx, sweepError, jobFailed,
                 alerts, emails>>

checkFlightPrice(s) ==
  \/ LookupNotFound(s)
  \/ CheckInvalidOriginal(s)
  \/ CheckNoDrop(s)
  \/ CheckDrop(s)

\* triggerPriceDropAlert: BEGIN
AlertBegin(s) ==
  /\ UNCHANGED <<price_history, serviceVars>>
  /\ pc[s] = "begin"
  /\ \E ok \in BOOLEAN :
       IF ok
         THEN /\ tx' = [tx EXCEPT ![s] = [NoTx EXCEPT !.open = TRUE, !.startedAt = now]]
              /\ pc' = [pc EXCEPT ![s] = "update_flight"]
         ELSE /\ pc' = [pc EXCEPT ![s] = "rollback"]
              /\ UNCHANGED tx
  /\ UNCHANGED <<now, flights, users, lookups, dueFlights, idx, alertData,
                 outcome, sweepError, jobFailed, alerts, emails>>

\* a row written by another open transaction is locked until that
\* transaction ends (COMMIT or ROLLBACK): the UPDATE waits
FlightRowLocked(s, f) ==
  \E t \in Sweeps \ {s} :
    tx[t].open /\ tx[t].flight /\ alertData[t].flight_id = f

UserRowLocked(s, u) ==
  \E t \in Sweeps \ {s} :
    tx[t].open /\ tx[t].user /\ alertData[t].user_id = u

AlertUpdateFlightAutocommit(s) ==
  /\ UNCHANGED <<price_history, serviceVars>>
  /\ pc[s] = "update_flight"
  /\ \E ok \in BOOLEAN :
       IF ok
         THEN /\ flights' = [flights EXCEPT ![alertData[s].flight_id] =
                    AlertFlightUpdate(@, alertData[s].currentPrice, now)]
              /\ pc' = [pc EXCEPT ![s] = "update_user"]
         ELSE /\ pc' = [pc EXCEPT ![s] = "rollback"]
              /\ UNCHANGED flights
  /\ UNCHANGED <<now, users, lookups, dueFlights, idx, alertData, tx,
                 outcome, sweepError, jobFailed, alerts, emails>>

\* triggerPriceDropAlert: the flight row update, inside the transaction
AlertUpdateFlight(s) ==
  /\ UNCHANGED <<price_history, serviceVars>>
  /\ pc[s] = "update_flight"
  /\ ~FlightRowLocked(s, alertData[s].flight_id)
  /\ \E ok \in BOOLEAN :
       IF ok
         THEN /\ tx' = [tx EXCEPT ![s].flight = TRUE]
              /\ pc' = [pc EXCEPT ![s] = "update_user"]
         ELSE /\ pc' = [pc EXCEPT ![s] = "rollback"]
              /\ UNCHANGED tx
  /\ UNCHANGED <<now, flights, users, lookups, dueFlights, idx, alertData,
                 outcome, sweepError, jobFailed, alerts, emails>>

\* triggerPriceDropAlert: the lifetime_savings increment, inside the transaction
AlertUpdateUser(s) ==
  /\ UNCHANGED <<price_history, serviceVars>>
  /\ pc[s] = "update_user"
  /\ ~UserRowLocked(s, alertData[s].user_id)
  /\ \E ok \in BOOLEAN :
       IF ok
         THEN /\ tx' = [tx EXCEPT ![s].user = TRUE]
              /\ pc' = [pc EXCEPT ![s] = "commit"]
         ELSE /\ pc' = [pc EXCEPT ![s] = "rollback"]
              /\ UNCHANGED tx
  /\ UNCHANGED <<now, flights, users, lookups, dueFlights, idx, alertData,
                 outcome, sweepError, jobFailed, alerts, emails>>

\* triggerPriceDropAlert: COMMIT makes the transaction's writes visible at once
AlertCommit(s) ==
  /\ UNCHANGED <<price_history, serviceVars>>
  /\ pc[s] = "commit"
  /\ \E ok \in BOOLEAN :
       IF ok
         THEN /\ flights' = [flights EXCEPT ![alertData[s].flight_id] =
                    IF tx[s].flight
                      THEN AlertFlightUpdate(@, alertData[s].currentPrice,
                                             tx[s].startedAt)
                      ELSE @]
              /\ users' = [users EXCEPT ![alertData[s].user_id] =
                    IF tx[s].user
                      THEN UserUpdate(@, alertData[s].savingsThisDrop)
                      ELSE @]
              /\ alerts' = [alerts EXCEPT ![alertData[s].flight_id] = @ + 1]
              /\ tx' = [tx EXCEPT ![s] = [NoTx EXCEPT !.committed = TRUE]]
              /\ pc' = [pc EXCEPT ![s] = "notify"]
         ELSE /\ pc' = [pc EXCEPT ![s] = "rollback"]
              /\ UNCHANGED <<flights, users, alerts, tx>>
  /\ UNCHANGED <<now, lookups, dueFlights, idx, alertData, outcome, sweepError,
                 jobFailed, emails>>

\* triggerPriceDropAlert after COMMIT: the email lookup, then
\* sendPriceDropEmail, which catches a failure of sgMail.send itself
AlertNotify(s) ==
  /\ UNCHANGED <<price_history, serviceVars>>
  /\ pc[s] = "notify"
  /\ \E lookupOk \in BOOLEAN, sendOk \in BOOLEAN :
       IF lookupOk
         THEN /\ emails' = [emails EXCEPT ![alertData[s].flight_id] = @ + 1]
              /\ Returned(s, IF sendOk THEN "alerted" ELSE "sendFailed")
              /\ tx' = [tx EXCEPT ![s] = NoTx]
              /\ alertData' = [alertData EXCEPT ![s] = NoAlert]
         ELSE /\ pc' = [pc EXCEPT ![s] = "rollback"]
              /\ UNCHANGED <<emails, tx, idx, outcome, dueFlights, alertData>>
  /\ UNCHANGED <<now, flights, users, lookups, sweepError, jobFailed, alerts>>

AlertRollbackEndsSweep(s) ==
  /\ UNCHANGED <<price_history, serviceVars>>
  /\ pc[s] = "rollback"
  /\ tx' = [tx EXCEPT ![s] = NoTx]
  /\ alertData' = [alertData EXCEPT ![s] = NoAlert]
  /\ CatchFlightErrorAbort(s)
  /\ UNCHANGED <<now, flights, users, lookups, sweepError, jobFailed, alerts,
                 emails>>

AlertRollbackUndoesCommit(s) ==
  /\ UNCHANGED <<price_history, serviceVars>>
  /\ pc[s] = "rollback"
  /\ tx' = [tx EXCEPT ![s] = NoTx]
  /\ alertData' = [alertData EXCEPT ![s] = NoAlert]
  /\ flights' = [flights EXCEPT ![Current(s).flight_id] =
                   [@ EXCEPT !.last_alerted_price = Current(s).last_alerted_price,
                             !.last_checked_price = Current(s).last_checked_price]]
  /\ \E ok \in BOOLEAN :
       IF ok
         THEN Returned(s, IF tx[s].committed THEN "notifyFailed" ELSE "rolledBack")
         ELSE CatchFlightError(s)
  /\ UNCHANGED <<now, users, lookups, sweepError, jobFailed, alerts, emails>>

AlertRollbackNotifies(s) ==
  /\ UNCHANGED <<price_history, serviceVars>>
  /\ pc[s] = "rollback"
  /\ tx' = [tx EXCEPT ![s] = NoTx]
  /\ alertData' = [alertData EXCEPT ![s] = NoAlert]
  /\ emails' = [emails EXCEPT ![Current(s).flight_id] = @ + 1]
  /\ \E ok \in BOOLEAN :
       IF ok
         THEN Returned(s, IF tx[s].committed THEN "notifyFailed" ELSE "rolledBack")
         ELSE CatchFlightError(s)
  /\ UNCHANGED <<now, flights, users, lookups, sweepError, jobFailed, alerts>>

\* triggerPriceDropAlert: catch (error) runs ROLLBACK, which discards the
\* uncommitted writes and does nothing after COMMIT; if ROLLBACK itself
\* rejects, the error leaves triggerPriceDropAlert and checkFlightPrice
AlertRollback(s) ==
  /\ UNCHANGED <<price_history, serviceVars>>
  /\ pc[s] = "rollback"
  /\ tx' = [tx EXCEPT ![s] = NoTx]
  /\ alertData' = [alertData EXCEPT ![s] = NoAlert]
  /\ \E ok \in BOOLEAN :
       IF ok
         THEN Returned(s, IF tx[s].committed THEN "notifyFailed" ELSE "rolledBack")
         ELSE CatchFlightError(s)
  /\ UNCHANGED <<now, flights, users, lookups, sweepError, jobFailed, alerts,
                 emails>>

triggerPriceDropAlert(s) ==
  \/ AlertBegin(s)
  \/ AlertUpdateFlight(s)
  \/ AlertUpdateUser(s)
  \/ AlertCommit(s)
  \/ AlertNotify(s)
  \/ AlertRollback(s)

\* the loop body after checkFlightPrice returned:
\* UPDATE flights SET next_check_at = NOW() + INTERVAL '<hours> hours'
Reschedule(s) ==
  /\ UNCHANGED <<price_history, serviceVars>>
  /\ pc[s] = "reschedule"
  /\ \E ok \in BOOLEAN :
       IF ok
         THEN /\ flights' = [flights EXCEPT ![Current(s).flight_id].next_check_at =
                               now + checkFrequency(Current(s))]
              /\ Advance(s, outcome[s])
         ELSE /\ CatchFlightError(s)
              /\ UNCHANGED flights
  /\ UNCHANGED <<now, users, lookups, alertData, tx, sweepError, jobFailed,
                 alerts, emails>>

processAllDueFlights(s) ==
  \/ FetchDueFlights(s)
  \/ checkFlightPrice(s)
  \/ triggerPriceDropAlert(s)
  \/ Reschedule(s)

runJob(s) == RunJob(s) \/ processAllDueFlights(s)

Next == Tick \/ runJob(1)

Spec == Init /\ [][Next]_vars

\* two invocations of the job whose runs overlap
NextOverlap == Tick \/ runJob(1) \/ runJob(2)

\* both find the first flight due; the second flight has no original price
InitOverlap == Init /\ flights[2].original_price = NULL

SpecOverlap == InitOverlap /\ [][NextOverlap]_vars

\* const priceData = await getFlightPrice(flightDetails)
\* the token getAccessToken ends with is the cached one or, when the
\* cache does not hold a valid one, a new one that replaces the cache
GetFlightPrice ==
  /\ priceData = Pending
  /\ priceData' = getFlightPrice(flightDetails, amadeusResponse)
  /\ IF amadeusResponse.kind = "tokenError" \/ cacheValid(dateNow)
       THEN UNCHANGED <<amadeusAccessToken, issued>>
       ELSE \E expires_in \in ExpiresIn :
              /\ issued' = Append(issued, dateNow + expires_in * 1000)
              /\ amadeusAccessToken' =
                   [token |-> Tok(Len(issued) + 1),
                    expiresAt |-> tokenExpiresAt(dateNow, expires_in)]
  /\ UNCHANGED <<sweepVars, price_history, flightDetails, amadeusResponse,
                 dateNow, call, rateVars, tripVars>>

LookupNext == GetFlightPrice

SpecLookup == LookupInit /\ [][LookupNext]_vars

\* ------------------------------------------------- getAccessToken calls
\* what a getAccessToken call does not touch
notTokenVars == <<sweepVars, price_history, lookupVars, rateVars, tripVars>>

\* time passes in the API process
TokenTick ==
  /\ dateNow < MaxClock * TickMillis
  /\ dateNow' = dateNow + TickMillis
  /\ UNCHANGED <<amadeusAccessToken, issued, call, notTokenVars>>

\* getAccessToken up to its first await: return the cached token, throw for
\* missing credentials, or send the token request
GetAccessToken(c) ==
  /\ call[c].pc \in {"idle", "returned", "threw"}
  /\ IF cacheValid(dateNow)
       THEN call' = [call EXCEPT ![c] =
                       [pc |-> "returned", now |-> dateNow,
                        token |-> amadeusAccessToken.token]]
       ELSE \E credentials \in BOOLEAN :
              call' = [call EXCEPT ![c] =
                         [pc |-> IF credentials THEN "fetching" ELSE "threw",
                          now |-> dateNow, token |-> NULL]]
  /\ UNCHANGED <<dateNow, amadeusAccessToken, issued, notTokenVars>>

\* the token endpoint answered and the cache keeps the expiry of the token
\* already stored when that is later
TokenResponseTornWrite(c) ==
  /\ call[c].pc = "fetching"
  /\ Len(issued) < MaxTokens
  /\ \E expires_in \in ExpiresIn :
       LET token == Tok(Len(issued) + 1)
           expiresAt == tokenExpiresAt(call[c].now, expires_in)
       IN /\ issued' = Append(issued, dateNow + expires_in * 1000)
          /\ amadeusAccessToken' =
               [token |-> token,
                expiresAt |-> IF amadeusAccessToken.expiresAt > expiresAt
                                THEN amadeusAccessToken.expiresAt ELSE expiresAt]
          /\ call' = [call EXCEPT ![c].pc = "returned", ![c].token = token]
  /\ UNCHANGED <<dateNow, notTokenVars>>

\* the token endpoint answered: the fetch rejected or the answer is not ok
\* (the error is logged and thrown again), or the answer carries a token
\* that lives expires_in seconds from now; the cache is replaced in one
\* assignment and the new token is returned
TokenResponse(c) ==
  /\ call[c].pc = "fetching"
  /\ \/ /\ call' = [call EXCEPT ![c].pc = "threw"]
        /\ UNCHANGED <<amadeusAccessToken, issued>>
     \/ /\ Len(issued) < MaxTokens
        /\ \E expires_in \in ExpiresIn :
             LET token == Tok(Len(issued) + 1)
             IN /\ issued' = Append(issued, dateNow + expires_in * 1000)
                /\ amadeusAccessToken' =
                     [token |-> token,
                      expiresAt |-> tokenExpiresAt(call[c].now, expires_in)]
                /\ call' = [call EXCEPT ![c].pc = "returned", ![c].token = token]
  /\ UNCHANGED <<dateNow, notTokenVars>>

getAccessToken(c) == GetAccessToken(c) \/ TokenResponse(c)

TokenNext == TokenTick \/ \E c \in Callers : getAccessToken(c)

\* the API process alone; the second flight is inactive
InitTokenCalls == Init /\ ~flights[2].is_active

SpecToken == InitTokenCalls /\ [][TokenNext]_vars

\* --------------------------------------------- rate limiting middleware
\* what a request passing the rate limiter does not touch
notRateVars == <<sweepVars, price_history, lookupVars, amadeusAccessToken,
                 issued, call, tripVars>>

\* time passes between two requests
RateTick ==
  /\ dateNow < MaxClock * RateTickMillis
  /\ dateNow' = dateNow + RateTickMillis
  /\ UNCHANGED <<rateVars, notRateVars>>

\* the middleware, restarting a client's window already at its deadline
rateLimitResetsAtDeadline(clientIp) ==
  LET clientData == rateLimitMap[clientIp]
  IN /\ IF clientData = NULL
          THEN /\ rateLimitMap' = [rateLimitMap EXCEPT ![clientIp] =
                    [count |-> 1, resetTime |-> dateNow + RATE_LIMIT_WINDOW]]
               /\ passed' = [passed EXCEPT ![clientIp] = 1]
               /\ rateResponse' = Passed(clientIp)
          ELSE IF dateNow >= clientData.resetTime
            THEN /\ rateLimitMap' = [rateLimitMap EXCEPT ![clientIp] =
                      [count |-> 1, resetTime |-> dateNow + RATE_LIMIT_WINDOW]]
                 /\ passed' = [passed EXCEPT ![clientIp] = 1]
                 /\ rateResponse' = Passed(clientIp)
            ELSE /\ clientData.count < RATE_LIMIT_MAX_REQUESTS + MaxBurst
                 /\ rateLimitMap' = [rateLimitMap EXCEPT ![clientIp].count = @ + 1]
                 /\ IF clientData.count + 1 > RATE_LIMIT_MAX_REQUESTS
                      THEN /\ rateResponse' = Limited(clientIp)
                           /\ UNCHANGED passed
                      ELSE /\ rateResponse' = Passed(clientIp)
                           /\ passed' = [passed EXCEPT ![clientIp] = @ + 1]
     /\ UNCHANGED <<dateNow, notRateVars>>

\* the middleware, which runs to its end without yielding: a client without
\* an entry gets one with count 1; after the deadline the entry restarts;
\* otherwise the count grows, and beyond the maximum the request is answered
\* 429 and next() is not called
rateLimit(clientIp) ==
  LET clientData == rateLimitMap[clientIp]
  IN /\ IF clientData = NULL
          THEN /\ rateLimitMap' = [rateLimitMap EXCEPT ![clientIp] =
                    [count |-> 1, resetTime |-> dateNow + RATE_LIMIT_WINDOW]]
               /\ passed' = [passed EXCEPT ![clientIp] = 1]
               /\ rateResponse' = Passed(clientIp)
          ELSE IF dateNow > clientData.resetTime
            THEN /\ rateLimitMap' = [rateLimitMap EXCEPT ![clientIp] =
                      [count |-> 1, resetTime |-> dateNow + RATE_LIMIT_WINDOW]]
                 /\ passed' = [passed EXCEPT ![clientIp] = 1]
                 /\ rateResponse' = Passed(clientIp)
            ELSE /\ clientData.count < RATE_LIMIT_MAX_REQUESTS + MaxBurst
                 /\ rateLimitMap' = [rateLimitMap EXCEPT ![clientIp].count = @ + 1]
                 /\ IF clientData.count + 1 > RATE_LIMIT_MAX_REQUESTS
                      THEN /\ rateResponse' = Limited(clientIp)
                           /\ UNCHANGED passed
                      ELSE /\ rateResponse' = Passed(clientIp)
                           /\ passed' = [passed EXCEPT ![clientIp] = @ + 1]
     /\ UNCHANGED <<dateNow, notRateVars>>

RateNext == RateTick \/ \E clientIp \in ClientIps : rateLimit(clientIp)

\* the middleware alone; the second flight is inactive
InitRateLimit == Init /\ ~flights[2].is_active

SpecRate == InitRateLimit /\ [][RateNext]_vars

\* ----------------------------------------------- createTripInDatabase
\* what a trip creation does not touch
notTripVars == <<sweepVars, price_history, lookupVars, tokenVars, rateVars>>

\* an error thrown inside the try block: the catch block runs next
Throw(r, message) ==
  trip' = [trip EXCEPT ![r].pc = "rollback", ![r].error = message]

\* another call holds an uncommitted INSERT of this users row
UserInsertPending(r, userId) ==
  \E o \in Requests \ {r} :
    /\ trip[o].pc \notin {"idle", "done"}
    /\ trip[o].flightData.userId = userId
    /\ trip[o].newUser

\* another call holds the lock of this users row
UserRowHeld(r, userId) ==
  \E o \in Requests \ {r} :
    /\ trip[o].pc \notin {"idle", "done"}
    /\ trip[o].flightData.userId = userId
    /\ (trip[o].newUser \/ trip[o].userLock)

\* another call holds an uncommitted flights row with this booking hash
HashInsertPending(r, bookingHash) ==
  \E o \in Requests \ {r} :
    /\ trip[o].flight # NULL
    /\ SqlEq(trip[o].flight.booking_hash, bookingHash)

\* POST /api/trips calls createTripInDatabase: a body failing validation is
\* answered 400 before a client is taken from the pool; otherwise BEGIN
CreateTrip(r) ==
  /\ trip[r].pc \in {"idle", "done"}
  /\ \E flightData \in TripData :
       LET message == validationError(flightData)
       IN trip' = [trip EXCEPT ![r] =
                     IF message # NoError
                       THEN [NoTrip EXCEPT !.pc = "done", !.flightData = flightData,
                                           !.error = message,
                                           !.status = statusCode(message)]
                       ELSE [NoTrip EXCEPT !.pc = "plan", !.flightData = flightData]]
  /\ UNCHANGED <<flightRows, userRows, tripHistory, notTripVars>>

\* the plan query answered: an unknown user is inserted next; a known user
\* at the limit of the plan is refused
UserPlanQuery(r) ==
  /\ trip[r].pc = "plan"
  /\ LET user == userRows[trip[r].flightData.userId]
     IN IF user = NULL
          THEN trip' = [trip EXCEPT ![r].pc = "new_user"]
          ELSE LET plan == planOf(user.subscription_plan)
               IN IF active_flights(trip[r].flightData.userId) >= plan.limit
                    THEN Throw(r, LimitReached)
                    ELSE trip' = [trip EXCEPT ![r].pc = "dups", ![r].plan = plan]
  /\ UNCHANGED <<flightRows, userRows, tripHistory, notTripVars>>

\* INSERT INTO users .. ON CONFLICT (user_id) DO NOTHING, then
\* user = { subscription_plan: 'free', active_flights: 0 }
InsertNewUser(r) ==
  /\ trip[r].pc = "new_user"
  /\ ~UserInsertPending(r, trip[r].flightData.userId)
  /\ LET plan == planOf("free")
     IN IF 0 >= plan.limit
          THEN Throw(r, LimitReached)
          ELSE trip' = [trip EXCEPT ![r].pc = "dups", ![r].plan = plan,
                          ![r].newUser = (userRows[trip[r].flightData.userId] = NULL)]
  /\ UNCHANGED <<flightRows, userRows, tripHistory, notTripVars>>

\* both duplicate queries answered
DuplicateChecks(r) ==
  /\ trip[r].pc = "dups"
  /\ IF hashCheck(trip[r].flightData) # {} THEN Throw(r, HashMatch)
     ELSE IF detailsCheck(trip[r].flightData) # {} THEN Throw(r, DetailsMatch)
     ELSE trip' = [trip EXCEPT ![r].pc = "upsert"]
  /\ UNCHANGED <<flightRows, userRows, tripHistory, notTripVars>>

\* INSERT INTO users .. ON CONFLICT (user_id) DO UPDATE SET updated_at:
\* waits for the row, then holds its lock up to the end of the transaction
UpsertUser(r) ==
  /\ trip[r].pc = "upsert"
  /\ ~UserRowHeld(r, trip[r].flightData.userId)
  /\ trip' = [trip EXCEPT ![r].pc = "insert", ![r].userLock = TRUE,
                ![r].newUser = (@ \/ userRows[trip[r].flightData.userId] = NULL)]
  /\ UNCHANGED <<flightRows, userRows, tripHistory, notTripVars>>

\* INSERT INTO flights: the query fails, or booking_hash is UNIQUE and a
\* committed row has it, or the row is written (after waiting for an
\* uncommitted row with the same hash); check_frequency_hours comes from
\* the plan
InsertFlight(r) ==
  /\ trip[r].pc = "insert"
  /\ \/ Throw(r, QueryFailed)
     \/ /\ ~HashInsertPending(r, trip[r].flightData.bookingHash)
        /\ IF \E i \in 1..Len(flightRows) :
                SqlEq(flightRows[i].booking_hash, trip[r].flightData.bookingHash)
             THEN Throw(r, UniqueViolation)
             ELSE trip' = [trip EXCEPT
                             ![r].flight = FlightRow(trip[r].flightData, TRUE),
                             ![r].pc = IF Falsy(trip[r].flightData.totalPrice)
                                         THEN "total" ELSE "history"]
  /\ UNCHANGED <<flightRows, userRows, tripHistory, notTripVars>>

\* if (totalPrice) INSERT INTO price_history
InsertHistory(r) ==
  /\ trip[r].pc = "history"
  /\ trip' = [trip EXCEPT ![r].pc = "total",
                ![r].history = trip[r].flightData.totalPrice]
  /\ UNCHANGED <<flightRows, userRows, tripHistory, notTripVars>>

\* UPDATE users SET total_flights = total_flights + 1
UpdateTotalFlights(r) ==
  /\ trip[r].pc = "total"
  /\ trip' = [trip EXCEPT ![r].pc = "commit", ![r].total = @ + 1]
  /\ UNCHANGED <<flightRows, userRows, tripHistory, notTripVars>>

\* COMMIT: the writes of the transaction become visible, the saved flight
\* is returned and the endpoint answers 201; a flight's id is its position
\* in the table
CommitTrip(r) ==
  /\ trip[r].pc = "commit"
  /\ LET userId == trip[r].flightData.userId
         user == IF userRows[userId] = NULL
                   THEN [subscription_plan |-> "free", total_flights |-> 0]
                   ELSE userRows[userId]
     IN /\ flightRows' = Append(flightRows, trip[r].flight)
        /\ tripHistory' =
             IF trip[r].history = NULL THEN tripHistory
             ELSE Append(tripHistory, [flight_id |-> Len(flightRows) + 1,
                                       price |-> trip[r].history])
        /\ userRows' = [userRows EXCEPT ![userId] =
                          [user EXCEPT !.total_flights = @ + trip[r].total]]
  /\ trip' = [trip EXCEPT ![r] =
                [NoTrip EXCEPT !.pc = "done", !.flightData = trip[r].flightData,
                               !.status = 201]]
  /\ UNCHANGED notTripVars

\* the catch block: ROLLBACK drops the writes of the transaction, the error
\* is thrown again and the endpoint answers with the status its message maps to
RollbackTrip(r) ==
  /\ trip[r].pc = "rollback"
  /\ trip' = [trip EXCEPT ![r] =
                [NoTrip EXCEPT !.pc = "done", !.flightData = trip[r].flightData,
                               !.error = trip[r].error,
                               !.status = statusCode(trip[r].error)]]
  /\ UNCHANGED <<flightRows, userRows, tripHistory, notTripVars>>

createTripInDatabase(r) ==
  \/ CreateTrip(r)
  \/ UserPlanQuery(r)
  \/ InsertNewUser(r)
  \/ DuplicateChecks(r)
  \/ UpsertUser(r)
  \/ InsertFlight(r)
  \/ InsertHistory(r)
  \/ UpdateTotalFlights(r)
  \/ CommitTrip(r)
  \/ RollbackTrip(r)

TripNext == \E r \in Requests : createTripInDatabase(r)

\* what the tables hold when the requests arrive: the first user's plan and
\* earlier bookings; the second user is not known yet
TripProfiles ==
  { [subscription_plan |-> "free", active |-> 0, inactive |-> 0],
    [subscription_plan |-> "free", active |-> 1, inactive |-> 1],
    [subscription_plan |-> "pro", active |-> 3, inactive |-> 0],
    [subscription_plan |-> "max", active |-> 7, inactive |-> 0],
    [subscription_plan |-> "trial", active |-> 1, inactive |-> 0] }

\* the trip endpoint alone; the second flight of the sweep is inactive
InitTripCalls ==
  /\ InitSweep
  /\ ~flights[2].is_active
  /\ price_history = [f \in Flights |-> InitialHistory(flights[f].original_price)]
  /\ flightDetails = NULL
  /\ amadeusResponse = NULL
  /\ priceData = Pending
  /\ InitToken
  /\ InitRate
  /\ tripHistory = <<>>
  /\ trip = [r \in Requests |-> NoTrip]
  /\ \E profile \in TripProfiles :
       /\ flightRows =
            [k \in 1..(profile.active + profile.inactive) |->
               Earlier(Ref("u1"), k, k <= profile.active)]
       /\ userRows =
            [u \in TripUsers |->
               IF u = Ref("u1")
                 THEN [subscription_plan |-> profile.subscription_plan,
                       total_flights |-> profile.active + profile.inactive]
                 ELSE NULL]

SpecTrips == InitTripCalls /\ [][TripNext]_vars

\* ------------------------------------------------------------- claims
\* positions of a job run inside the for..of loop
LoopStates == {"loop", "begin", "update_flight", "update_user", "commit",
               "notify", "rollback", "reschedule"}

\* a step in which checkFlightPrice receives a fare lookup result
LookupStep(s) == pc[s] = "loop" /\ lookups' = lookups + 1

\* a step in which COMMIT succeeds
CommitStep(s) == pc[s] = "commit" /\ pc'[s] = "notify"

\* a step in which the loop leaves the flight it is at
LeavesFlight(s) ==
  /\ pc[s] \in LoopStates
  /\ pc'[s] \in {"loop", "exited"}

\* C1: for a flight with a valid original price that was never alerted, the
\* alert path is taken exactly when the current price is below 0.9 times
\* the original price, and the savings handed to the alert transaction are
\* original minus current
C1_FirstAlertDecision ==
  [][\A s \in Sweeps :
       (/\ LookupStep(s)
        /\ IsNum(Current(s).original_price)
        /\ Current(s).last_alerted_price = NULL)
       => LET original == Current(s).original_price.num
              f == Current(s).flight_id
          IN /\ pc'[s] = "begin" =>
                  /\ alertData'[s].flight_id = f
                  /\ 10 * alertData'[s].currentPrice < 9 * original
                  /\ alertData'[s].savingsThisDrop
                       = original - alertData'[s].currentPrice
             /\ (pc'[s] = "reschedule" /\ outcome'[s] = "stable") =>
                  10 * flights'[f].last_checked_price.num >= 9 * original
             /\ (pc'[s] = "reschedule" /\ outcome'[s] # "notFound") =>
                  outcome'[s] = "stable"
    ]_vars

C1_Witness ==
  \E s \in Sweeps :
    /\ pc[s] = "begin"
    /\ Current(s).original_price = Num(500)
    /\ Current(s).last_alerted_price = NULL
    /\ alertData[s].currentPrice = 449
    /\ alertData[s].savingsThisDrop = 51

\* C2: for a flight with a valid original price and a non-null last alerted
\* price, the alert path is taken exactly when the current price is below
\* 0.9 times the last alerted price, and the savings handed to the alert
\* transaction are last alerted minus current
C2_LaterAlertDecision ==
  [][\A s \in Sweeps :
       (/\ LookupStep(s)
        /\ IsNum(Current(s).original_price)
        /\ Current(s).last_alerted_price # NULL)
       => LET last == Current(s).last_alerted_price.num
              f == Current(s).flight_id
          IN /\ pc'[s] = "begin" =>
                  /\ 10 * alertData'[s].currentPrice < 9 * last
                  /\ alertData'[s].savingsThisDrop
                       = last - alertData'[s].currentPrice
             /\ (pc'[s] = "reschedule" /\ outcome'[s] = "stable") =>
                  10 * flights'[f].last_checked_price.num >= 9 * last
    ]_vars

\* C3: the alert transaction is atomic: while it runs, only a successful
\* COMMIT changes the persisted flight and user rows, and it changes the
\* flight's last alerted price, last checked price and the user's lifetime
\* savings together; after a rollback the flight row is the row the sweep
\* read before the transaction
C3_AlertTransactionAtomic ==
  [][\A s \in Sweeps :
       pc[s] \in {"begin", "update_flight", "update_user", "commit", "rollback"}
       => LET f == Current(s).flight_id
              u == Current(s).user_id
          IN /\ \/ flights' = flights /\ users' = users
                \/ /\ CommitStep(s)
                   /\ flights'[f].last_alerted_price = Num(alertData[s].currentPrice)
                   /\ flights'[f].last_checked_price = Num(alertData[s].currentPrice)
                   /\ users'[u].lifetime_savings
                        = users[u].lifetime_savings + alertData[s].savingsThisDrop
             /\ outcome'[s] = "rolledBack" =>
                  /\ flights'[f].last_alerted_price = Current(s).last_alerted_price
                  /\ flights'[f].last_checked_price = Current(s).last_checked_price
                  /\ flights'[f].last_checked_at = Current(s).last_checked_at
                  /\ users'[u].lifetime_savings = users[u].lifetime_savings
    ]_vars

\* the savings increment failed after the flight row update was issued
C3_Witness ==
  \E s \in Sweeps :
    /\ pc[s] = "rollback"
    /\ tx[s].flight /\ ~tx[s].user /\ ~tx[s].committed
    /\ flights[alertData[s].flight_id].last_alerted_price = NULL

\* C4: lifetime savings change only in a committed alert transaction, and
\* each commit adds exactly the savings of that drop, once
C4_SavingsOncePerAlert ==
  [][/\ \A s \in Sweeps :
          CommitStep(s) =>
            /\ users'[alertData[s].user_id].lifetime_savings
                 = users[alertData[s].user_id].lifetime_savings
                   + alertData[s].savingsThisDrop
            /\ \A u \in Users \ {alertData[s].user_id} : users'[u] = users[u]
     /\ (\A s \in Sweeps : ~CommitStep(s)) => users' = users
    ]_vars

C4_Witness ==
  \E s \in Sweeps :
    /\ pc[s] = "notify"
    /\ alertData[s].savingsThisDrop = 51
    /\ users[alertData[s].user_id].lifetime_savings = 51 + 100

C6_NotifyFailureKeepsCommit ==
  [][\A s \in Sweeps :
       (pc[s] = "notify" \/ (pc[s] = "rollback" /\ tx[s].committed))
       => LET f == alertData[s].flight_id
          IN /\ flights[f].last_alerted_price = Num(alertData[s].currentPrice)
             /\ flights'[f].last_alerted_price = Num(alertData[s].currentPrice)
             /\ flights'[f].last_checked_price = Num(alertData[s].currentPrice)
             /\ users' = users
             /\ pc'[s] \in {"notify", "rollback", "reschedule", "loop", "exited"}
             /\ pc'[s] = "exited" => idx[s] = Len(dueFlights[s])
    ]_vars

C6_Witness ==
  \E s \in Sweeps :
    /\ pc[s] = "reschedule"
    /\ outcome[s] = "notifyFailed"
    /\ flights[Current(s).flight_id].last_alerted_price = Num(449)
    /\ users[Current(s).user_id].lifetime_savings = 51
    /\ emails[Current(s).flight_id] = 0

\* C7: an exception while one due flight is processed moves the loop to the
\* next due flight (the sweep ends only after the last row), and no step
\* taken for a flight changes another flight's row or another user's row
C7_FailureIsolation ==
  [][\A s \in Sweeps :
       pc[s] \in LoopStates
       => LET f == Current(s).flight_id
              u == Current(s).user_id
          IN /\ \A g \in Flights \ {f} : flights'[g] = flights[g]
             /\ \A v \in Users \ {u} : users'[v] = users[v]
             /\ pc'[s] = "exited" => idx[s] = Len(dueFlights[s])
             /\ (LeavesFlight(s) /\ idx[s] < Len(dueFlights[s])) =>
                  /\ pc'[s] = "loop"
                  /\ idx'[s] = idx[s] + 1
                  /\ dueFlights'[s] = dueFlights[s]
    ]_vars

\* the first due flight raised an exception and the loop is at the second
C7_Witness ==
  \E s \in Sweeps :
    /\ pc[s] = "loop"
    /\ idx[s] = 2
    /\ outcome[s] = "exception"

\* C8 as claimed: whenever the loop leaves a due flight, whatever happened,
\* that flight's next_check_at has been set to now + its check frequency
C8_AlwaysRescheduled ==
  [][\A s \in Sweeps :
       LeavesFlight(s) =>
         flights'[Current(s).flight_id].next_check_at
           = now + (IF Current(s).check_frequency_hours = 0
                      THEN 24 ELSE Current(s).check_frequency_hours)
    ]_vars

\* C9 as claimed: a job run ends in failure, seen by runJob, exactly when
\* fetching the due flights failed (taking the client or running the query)
C9_OnlyDueQueryFailurePropagates ==
  \A s \in Sweeps :
    pc[s] = "exited" => (jobFailed[s] <=> sweepError[s] # "none")

\* C10: when the fare lookup reports nothing, the sweep writes only the
\* flight's last_checked_at and then its next_check_at; prices, the user's
\* lifetime savings and the notifications stay as they were
C10_NotFoundTouchesOnlyCheckedAt ==
  [][\A s \in Sweeps :
       LET f == Current(s).flight_id
       IN /\ (LookupStep(s) /\ outcome'[s] = "notFound") =>
               /\ flights' = [flights EXCEPT ![f].last_checked_at = now]
               /\ users' = users /\ emails' = emails /\ alerts' = alerts
               /\ pc'[s] = "reschedule"
          /\ (pc[s] = "reschedule" /\ outcome[s] = "notFound") =>
               /\ \/ flights' = flights
                  \/ flights' = [flights EXCEPT ![f].next_check_at =
                                   flights'[f].next_check_at]
               /\ users' = users /\ emails' = emails /\ alerts' = alerts
    ]_vars

\* a flight checked before at some price gets a not-found lookup
C10_Witness ==
  \E s \in Sweeps :
    /\ pc[s] = "reschedule"
    /\ outcome[s] = "notFound"
    /\ flights[Current(s).flight_id].last_checked_at = now
    /\ Current(s).last_checked_at # now
    /\ flights[Current(s).flight_id].last_checked_price = Num(450)

\* C11: when a price is found and the drop does not qualify, the sweep
\* writes only the flight's last_checked_price (the observed price) and
\* last_checked_at; users, alerts and notifications stay as they were, and a
\* flight's last_alerted_price changes only at the COMMIT of its alert
\* transaction
C11_RefreshWritesOnlyCheckedFields ==
  [][/\ \A s \in Sweeps :
          LET f == Current(s).flight_id
          IN (LookupStep(s) /\ outcome'[s] = "stable") =>
               /\ \E p \in Prices :
                    /\ ~shouldAlert(Current(s).original_price,
                                    Current(s).last_alerted_price, p)
                    /\ flights' = [flights EXCEPT
                                     ![f].last_checked_price = Num(p),
                                     ![f].last_checked_at = now]
               /\ users' = users /\ emails' = emails /\ alerts' = alerts
     /\ \A f \in Flights :
          flights'[f].last_alerted_price # flights[f].last_alerted_price =>
            \E s \in Sweeps : CommitStep(s) /\ alertData[s].flight_id = f
    ]_vars

\* a flight alerted at 449 is later observed at 450 and only refreshed
C11_Witness ==
  \E s \in Sweeps :
    /\ pc[s] = "reschedule"
    /\ outcome[s] = "stable"
    /\ flights[Current(s).flight_id].last_alerted_price = Num(449)
    /\ flights[Current(s).flight_id].last_checked_price = Num(450)
    /\ alerts[Current(s).flight_id] = 1

\* the JSON body of a successful flight-offers answer carries offers
HasOffers(r) ==
  /\ r.kind = "http" /\ ResponseOk(r.status)
  /\ "data" \in DOMAIN r.body
  /\ Len(r.body.data) > 0

\* C12 as claimed: getFlightPrice returns null for a 400 answer and for an
\* answer without offers, and throws to its caller for every other
\* non-success answer, for a network failure and for a token failure
C12_LookupFailurePropagates ==
  priceData # Pending =>
    LET r == amadeusResponse
    IN /\ (r.kind = "http" /\ (r.status = 400 \/ ResponseOk(r.status)) /\ ~HasOffers(r))
            => priceData = NULL
       /\ (r.kind # "http" \/ (~ResponseOk(r.status) /\ r.status # 400))
            => IsThrown(priceData)

\* C13 as claimed: for a flight with an airline code, getFlightPrice returns
\* the price of an offer whose every segment is flown by that carrier, and
\* null when the answer holds no such offer
C13_AirlineFilterRespected ==
  (priceData # Pending /\ flightDetails.airline # NULL /\ HasOffers(amadeusResponse)) =>
    LET data == amadeusResponse.body.data
        matching == {i \in 1..Len(data) :
                       \A k \in 1..Len(data[i].carrierCodes) :
                         Code(data[i].carrierCodes[k]) = flightDetails.airline}
    IN IF matching = {}
         THEN priceData = NULL
         ELSE \E i \in matching :
                priceData = [currentPrice |-> parseFloat(data[i].total)]

\* C14: with a preferred departure time and a non-empty offer list,
\* getFlightPrice returns the price of the offer whose first segment departs
\* closest to the preferred time of day in minutes, the earliest in the list
\* among equally close ones; without a preferred time it returns the price
\* of the first offer
C14_ClosestDepartureSelected ==
  (priceData # Pending /\ HasOffers(amadeusResponse)) =>
    LET data == amadeusResponse.body.data
        diff(i) == Abs(TimeInMinutes(flightDetails.departureTime)
                       - TimeInMinutes(data[i].at))
    IN IF flightDetails.departureTime # NULL
         THEN \E i \in 1..Len(data) :
                /\ priceData = [currentPrice |-> parseFloat(data[i].total)]
                /\ \A j \in 1..Len(data) :
                     /\ diff(i) <= diff(j)
                     /\ j < i => diff(j) > diff(i)
         ELSE priceData = [currentPrice |-> parseFloat(data[1].total)]

\* offers at 08:00, 13:00 and 19:00, preferred time 12:30: the 13:00 offer's
\* price is returned
C14_Witness ==
  /\ flightDetails.departureTime = Time(<<1, 2>>, <<3, 0>>)
  /\ HasOffers(amadeusResponse)
  /\ [i \in 1..Len(amadeusResponse.body.data) |-> amadeusResponse.body.data[i].at]
       = <<Time(<<0, 8>>, <<0, 0>>), Time(<<1, 3>>, <<0, 0>>), Time(<<1, 9>>, <<0, 0>>)>>
  /\ priceData = [currentPrice |-> 320]

\* C15 as claimed: the COMMIT of an alert transaction appends one
\* price_history row with the new price for that flight, and no other step
\* of the sweep (a rollback included) changes price_history
C15_AlertAppendsPriceHistory ==
  [][/\ \A s \in Sweeps :
          CommitStep(s) =>
            price_history' =
              [price_history EXCEPT ![alertData[s].flight_id] =
                 Append(@, [price |-> alertData[s].currentPrice])]
     /\ (\A s \in Sweeps : ~CommitStep(s)) => price_history' = price_history
    ]_vars

AlertStates == {"begin", "update_flight", "update_user", "commit", "notify", "rollback"}

\* C16: for a due flight whose original_price is null or NaN, the check
\* never enters the alert transaction, whatever price the lookup returns:
\* users, alerts, notifications and the flight's last_alerted_price stay as
\* they were, and when checkFlightPrice returns the flight's
\* last_checked_at has been set to NOW()
C16_InvalidOriginalNeverAlerts ==
  [][\A s \in Sweeps :
       /\ pc[s] \in AlertStates => ~InvalidOriginal(Current(s).original_price)
       /\ (LookupStep(s) /\ InvalidOriginal(Current(s).original_price)) =>
            LET f == Current(s).flight_id
            IN /\ pc'[s] \notin AlertStates
               /\ users' = users /\ emails' = emails /\ alerts' = alerts
               /\ flights'[f].last_alerted_price = flights[f].last_alerted_price
               /\ \A g \in Flights \ {f} : flights'[g] = flights[g]
               /\ pc'[s] = "reschedule" =>
                    /\ outcome'[s] \in {"invalid", "notFound"}
                    /\ flights'[f].last_checked_at = now
    ]_vars

\* a flight without a valid original price was looked up at a price that
\* would qualify against any positive baseline, and was only refreshed
C16_Witness ==
  \E s \in Sweeps :
    /\ pc[s] = "reschedule"
    /\ outcome[s] = "invalid"
    /\ InvalidOriginal(Current(s).original_price)
    /\ flights[Current(s).flight_id].last_checked_price = Num(0)
    /\ flights[Current(s).flight_id].last_checked_at = now
    /\ flights[Current(s).flight_id].last_alerted_price = NULL

\* C17 as claimed: a looked-up price of zero or below never starts the alert
\* transaction, so every price handed to triggerPriceDropAlert is positive
C17_NonPositivePriceNeverAlerts ==
  [][\A s \in Sweeps :
       (LookupStep(s) /\ pc'[s] = "begin") => alertData'[s].currentPrice > 0
    ]_vars

\* the threshold's base: last_alerted_price, or original_price if never alerted
Baseline(flight) ==
  IF flight.last_alerted_price = NULL
    THEN flight.original_price ELSE flight.last_alerted_price

\* C18 as claimed: a found price that is at least 10% below the flight's
\* baseline, exactly 10% included, is never handled as a plain refresh
C18_TenPercentQualifies ==
  [][\A s \in Sweeps :
       (/\ LookupStep(s)
        /\ IsNum(Current(s).original_price)
        /\ pc'[s] = "reschedule" /\ outcome'[s] = "stable")
       => 10 * flights'[Current(s).flight_id].last_checked_price.num
            > 9 * Baseline(Current(s)).num
    ]_vars

\* C18 amended: a found price more than 10% below the flight's baseline is
\* never handled as a plain refresh (checkFlightPrice calls
\* triggerPriceDropAlert for it); a price exactly 10% below is refreshed only
C18_MoreThanTenPercentQualifies ==
  [][\A s \in Sweeps :
       (/\ LookupStep(s)
        /\ IsNum(Current(s).original_price)
        /\ pc'[s] = "reschedule" /\ outcome'[s] = "stable")
       => 10 * flights'[Current(s).flight_id].last_checked_price.num
            >= 9 * Baseline(Current(s)).num
    ]_vars

\* a flight alerted at 449 drops to 400, more than 10% below 449, and the
\* alert transaction is entered again
C18_Witness ==
  \E s \in Sweeps :
    /\ pc[s] = "begin"
    /\ Current(s).last_alerted_price = Num(449)
    /\ alertData[s].currentPrice = 400

\* C19 as claimed: no step of the sweep or of the alert transaction lowers a
\* user's lifetime_savings
C19_LifetimeSavingsNeverDecrease ==
  [][\A u \in Users : users'[u].lifetime_savings >= users[u].lifetime_savings
    ]_vars

\* C20: the rows a sweep works on are the flights that were active, not yet
\* departed and due when its query ran, each once; the list is never
\* refilled and the loop only moves forward in it; every fare lookup and
\* every change of a flight row, of the alert count or of the notification
\* count is made for the row the loop is at
C20_OnlyDueFlightsProcessed ==
  [][/\ \A s \in Sweeps :
          /\ (pc[s] = "connected" /\ pc'[s] \in {"loop", "exited"}
                /\ sweepError'[s] = "none") =>
               LET rows == dueFlights'[s]
               IN /\ {rows[i].flight_id : i \in 1..Len(rows)}
                       = {f \in Flights : /\ flights[f].is_active
                                          /\ flights[f].departure_date > now
                                          /\ flights[f].next_check_at <= now}
                  /\ \A i, j \in 1..Len(rows) :
                       rows[i].flight_id = rows[j].flight_id => i = j
                  /\ \A i \in 1..Len(rows) : rows[i] = flights[rows[i].flight_id]
          /\ pc[s] \in LoopStates =>
               /\ idx[s] \in 1..Len(dueFlights[s])
               /\ \/ dueFlights'[s] = dueFlights[s] /\ idx'[s] \in {idx[s], idx[s] + 1}
                  \/ pc'[s] = "exited" /\ idx[s] = Len(dueFlights[s])
               /\ LookupStep(s) => (pc'[s] # "loop" \/ idx'[s] = idx[s] + 1)
               /\ (pc[s] # "loop" /\ pc'[s] = "loop") => idx'[s] = idx[s] + 1
     /\ lookups' # lookups => \E s \in Sweeps : pc[s] = "loop"
     /\ \A f \in Flights :
          (flights'[f] # flights[f] \/ alerts'[f] # alerts[f] \/ emails'[f] # emails[f])
            => \E s \in Sweeps : pc[s] \in LoopStates /\ Current(s).flight_id = f
    ]_vars

\* a sweep alerted on flight 1 and ended; flight 2, inactive, is the row it
\* was created as
C20_Witness ==
  /\ pc[1] = "exited"
  /\ alerts[1] = 1
  /\ ~flights[2].is_active
  /\ flights[2] = NewFlight(2, "u2", Num(500), FALSE, FarFuture, 0, 1)
  /\ flights[1].next_check_at = 1

\* C21: once a flight has a stored last alerted price p, a pass whose
\* lookup finds a price of at least 0.9 * p (p itself included) leaves the
\* alert count, the users and the notifications as they were; every alert
\* transaction entered or committed for the flight carries a price below
\* 0.9 * p
C21_NoRepeatAlertInBand ==
  [][\A s \in Sweeps :
       /\ (LookupStep(s) /\ flights[Current(s).flight_id].last_alerted_price # NULL) =>
            LET f == Current(s).flight_id
                p == flights[f].last_alerted_price.num
            IN /\ pc'[s] = "begin" => 10 * alertData'[s].currentPrice < 9 * p
               /\ alerts' = alerts /\ users' = users /\ emails' = emails
               /\ (pc'[s] = "reschedule" /\ outcome'[s] = "stable") =>
                    /\ 10 * flights'[f].last_checked_price.num >= 9 * p
                    /\ flights'[f].last_alerted_price = Num(p)
       /\ (CommitStep(s) /\ flights[alertData[s].flight_id].last_alerted_price # NULL) =>
            10 * alertData[s].currentPrice
              < 9 * flights[alertData[s].flight_id].last_alerted_price.num
    ]_vars

\* a flight alerted at 449 is found at 449 again in a later pass: one alert,
\* one notification, 51 saved
C21_Witness ==
  \E s \in Sweeps :
    /\ pc[s] = "reschedule"
    /\ outcome[s] = "stable"
    /\ now = 1
    /\ flights[Current(s).flight_id].last_alerted_price = Num(449)
    /\ flights[Current(s).flight_id].last_checked_price = Num(449)
    /\ flights[Current(s).flight_id].last_checked_at = 1
    /\ alerts[Current(s).flight_id] = 1
    /\ emails[Current(s).flight_id] = 1
    /\ users[Current(s).user_id].lifetime_savings = 51

\* C22: a failure inside the alert transaction ends in ROLLBACK; the flight
\* row is then the row the sweep read (its last alerted price is the stale
\* one), the users are untouched, the loop goes on to the next_check_at
\* update and the next flight, and the price that was found still qualifies
\* against the persisted row, so a later pass that finds it enters the alert
\* transaction again
C22_RollbackKeepsDropForRetry ==
  [][\A s \in Sweeps :
       (pc[s] = "rollback" /\ ~tx[s].committed) =>
         LET f == Current(s).flight_id
         IN /\ flights' = flights /\ users' = users
            /\ alerts' = alerts /\ emails' = emails
            /\ flights'[f] = Current(s)
            /\ shouldAlert(flights'[f].original_price,
                           flights'[f].last_alerted_price,
                           alertData[s].currentPrice)
            /\ pc'[s] \in {"reschedule", "loop", "exited"}
            /\ pc'[s] = "exited" => idx[s] = Len(dueFlights[s])
            /\ pc'[s] = "reschedule" => outcome'[s] = "rolledBack"
    ]_vars

\* the flights UPDATE of an alert at 449 was issued, the transaction rolled
\* back, and the row still has no last alerted price
C22_Witness ==
  \E s \in Sweeps :
    /\ pc[s] = "reschedule"
    /\ outcome[s] = "rolledBack"
    /\ flights[Current(s).flight_id].last_alerted_price = NULL
    /\ flights[Current(s).flight_id].last_checked_price = NULL
    /\ alerts[Current(s).flight_id] = 0
    /\ emails[Current(s).flight_id] = 0

\* C23 as claimed: when the runs of two sweeps overlap, a drop to a
\* (positive) price is alerted once: no alert transaction commits at the
\* price that is already the flight's last alerted price, so the savings of
\* that drop are added and its notification is sent one time
C23_OverlapAlertsOnce ==
  [][\A s \in Sweeps :
       (CommitStep(s) /\ alertData[s].currentPrice > 0) =>
         flights[alertData[s].flight_id].last_alerted_price
           # Num(alertData[s].currentPrice)
    ]_vars

\* the ten seconds a cached token is retired before its expiry
MarginMillis == 10 * 1000

\* a step in which caller c enters getAccessToken
CallStarts(c) == call[c].pc # "fetching" /\ call'[c] # call[c]

\* a step in which caller c receives a new token
CallRefreshed(c) == call[c].pc = "fetching" /\ call'[c].pc = "returned"

\* C24: a call returns the cached token, without a token request, only at a
\* time earlier than that token's provider expiry minus ten seconds; with no
\* cached token, or from that time on, the call sends a token request (or
\* throws), and an answered request replaces the cache with the new token
C24_CachedTokenOnlyBeforeMargin ==
  [][\A c \in Callers :
       /\ (CallStarts(c) /\ call'[c].pc = "returned") =>
            /\ amadeusAccessToken.token # NULL
            /\ call'[c].token = amadeusAccessToken.token
            /\ dateNow < issued[amadeusAccessToken.token.id] - MarginMillis
            /\ issued' = issued
            /\ amadeusAccessToken' = amadeusAccessToken
       /\ (/\ CallStarts(c)
           /\ \/ amadeusAccessToken.token = NULL
              \/ dateNow >= issued[amadeusAccessToken.token.id] - MarginMillis)
            => call'[c].pc \in {"fetching", "threw"}
       /\ CallRefreshed(c) =>
            /\ Len(issued') = Len(issued) + 1
            /\ call'[c].token = Tok(Len(issued'))
            /\ amadeusAccessToken'.token = call'[c].token
    ]_vars

\* a token that lives 40 s was cached at time 0 and is returned from the
\* cache 20 s later
C24_Witness ==
  \E c \in Callers :
    /\ call[c].pc = "returned"
    /\ call[c].now = 2 * TickMillis
    /\ call[c].token = Tok(1)
    /\ issued = <<4 * TickMillis>>
    /\ amadeusAccessToken.token = Tok(1)

\* C25: whatever the interleaving of overlapping getAccessToken calls, a
\* call that returns a token returns one the provider still accepts, and the
\* cache always pairs its token with an expiresAt of at most that token's
\* provider expiry minus ten seconds
C25_ConcurrentRefreshHarmless ==
  [][/\ \A c \in Callers :
          (call'[c] # call[c] /\ call'[c].pc = "returned") =>
            dateNow' < issued'[call'[c].token.id]
     /\ amadeusAccessToken'.token # NULL =>
          amadeusAccessToken'.expiresAt
            <= issued'[amadeusAccessToken'.token.id] - MarginMillis
    ]_vars

\* two calls overlapped with no valid token cached; the call that started
\* later was answered first, and the cache holds the other call's token
C25_Witness ==
  /\ call[1].pc = "returned" /\ call[2].pc = "returned"
  /\ call[1].now = 0 /\ call[2].now = TickMillis
  /\ call[2].token = Tok(1) /\ call[1].token = Tok(2)
  /\ amadeusAccessToken.token = Tok(2)
  /\ Len(issued) = 2

\* C26 as claimed: for positive prices, a committed alert sets the flight's
\* last alerted price to the alerted price, below 0.9 times the original
\* price and below 0.9 times the last alerted price it replaces
C26_LastAlertedStrictlyLowered ==
  [][\A s \in Sweeps :
       LET f == alertData[s].flight_id
           old == flights[f].last_alerted_price
           cur == alertData[s].currentPrice
       IN (/\ CommitStep(s)
           /\ cur > 0
           /\ (old = NULL \/ old.num > 0))
          => /\ flights'[f].last_alerted_price = Num(cur)
             /\ 10 * cur < 9 * flights[f].original_price.num
             /\ old # NULL => 10 * cur < 9 * old.num
    ]_vars

\* what flight f contributes to the savings of user u
SavedOn(f, u) ==
  IF flights[f].user_id = u /\ flights[f].last_alerted_price # NULL
    THEN flights[f].original_price.num - flights[f].last_alerted_price.num
    ELSE 0

\* C27 as claimed: with sweeps that do not overlap, each user's lifetime
\* savings are the sum, over the user's flights that have a last alerted
\* price, of original price minus last alerted price
C27_SavingsTelescope ==
  \A u \in Users : users[u].lifetime_savings = SavedOn(1, u) + SavedOn(2, u)

\* C30: a request of a client without entry, or arriving after the deadline
\* of its window, starts a window with count 1 ending 60 s later, and is
\* passed on; any other request leaves the deadline alone, is passed on
\* while fewer than 100 requests of the window were passed, and is answered
\* 429 otherwise; so no window passes more than 100 requests; no request
\* touches the entry of another client
C30_RateLimitPerClient ==
  /\ [](\A ip \in ClientIps : passed[ip] <= 100)
  /\ [][\A ip \in ClientIps :
          rateLimitMap'[ip] # rateLimitMap[ip] =>
            LET old == rateLimitMap[ip]
                new == rateLimitMap'[ip]
                restart == IF old = NULL THEN TRUE ELSE dateNow > old.resetTime
            IN /\ \A other \in ClientIps \ {ip} :
                    /\ rateLimitMap'[other] = rateLimitMap[other]
                    /\ passed'[other] = passed[other]
               /\ IF restart
                    THEN /\ new = [count |-> 1, resetTime |-> dateNow + 60 * 1000]
                         /\ passed'[ip] = 1
                         /\ rateResponse' = [clientIp |-> ip, status |-> "next"]
                    ELSE /\ new.resetTime = old.resetTime
                         /\ IF passed[ip] < 100
                              THEN /\ rateResponse' = [clientIp |-> ip, status |-> "next"]
                                   /\ passed'[ip] = passed[ip] + 1
                              ELSE /\ rateResponse' = [clientIp |-> ip, status |-> "429"]
                                   /\ passed'[ip] = passed[ip]
       ]_vars

\* the 101st request of a window was refused at the deadline itself, while
\* the other client's window had been restarted
C30_Witness ==
  /\ rateResponse = [clientIp |-> "ip1", status |-> "429"]
  /\ passed["ip1"] = 100
  /\ rateLimitMap["ip1"].resetTime = dateNow
  /\ rateLimitMap["ip2"] # NULL
  /\ rateLimitMap["ip2"].resetTime > 60 * 1000

\* the limit of the plan a user's creations are checked against
planLimit(userId) ==
  IF userRows[userId] = NULL THEN planOf("free").limit
  ELSE planOf(userRows[userId].subscription_plan).limit

\* C28 as claimed: no user ever has more active flights than the plan
\* allows (free 2, pro 4, max 8), whatever the interleaving of the creation
\* requests; and a creation whose plan query finds the active count at the
\* limit is thrown out with the limit error, answered 403, and leaves the
\* tables as they were
C28_PlanLimitNeverExceeded ==
  /\ [](\A u \in TripUsers : active_flights(u) <= planLimit(u))
  /\ [][\A r \in Requests :
          /\ (/\ trip[r].pc = "plan"
              /\ trip'[r].pc # "plan"
              /\ userRows[trip[r].flightData.userId] # NULL
              /\ active_flights(trip[r].flightData.userId)
                   >= planLimit(trip[r].flightData.userId))
             => /\ trip'[r].pc = "rollback"
                /\ includes(trip'[r].error, "limit")
          /\ (trip[r].pc = "rollback" /\ trip'[r].pc = "done")
             => /\ flightRows' = flightRows
                /\ includes(trip[r].error, "limit") => trip'[r].status = 403
       ]_vars

\* two rows of table flights are the same booking of the same user
SameBooking(a, b) ==
  /\ a.user_id = b.user_id
  /\ \/ SqlEq(a.booking_hash, b.booking_hash)
     \/ /\ a.booking_reference = b.booking_reference
        /\ a.departure_airport = b.departure_airport
        /\ a.arrival_airport = b.arrival_airport
        /\ a.departure_date = b.departure_date

\* C29 as claimed: table flights never holds one user's booking twice, by
\* hash or by (reference, airports, departure date), whatever the
\* interleaving of the creations; and a creation that ends rejected leaves
\* flights, price_history and users as they were
C29_NoDuplicateNoLeftovers ==
  /\ [](\A i, j \in 1..Len(flightRows) :
          i < j => ~SameBooking(flightRows[i], flightRows[j]))
  /\ [][\A r \in Requests :
          (/\ trip'[r] # trip[r]
           /\ trip'[r].pc = "done"
           /\ trip'[r].status # 201)
          => /\ flightRows' = flightRows
             /\ tripHistory' = tripHistory
             /\ userRows' = userRows
       ]_vars

====
